---- MODULE Spec2Model ----
(***************************************************************************)
(* Coffee Shop API: the order store (orders_db), the pricing and prep-time *)
(* calculators and the request handlers of main.py, with the request and   *)
(* response schemas of models.py.                                          *)
(*                                                                         *)
(* Units: money is carried in mills (1/1000 of a currency unit) while it   *)
(* is accumulated and in cents once rounded; the prep-time accumulator is  *)
(* carried in half minutes; the clock counts minutes.                      *)
(* Optional[T] values are <<>> (None) or <<v>>.                            *)
(***************************************************************************)
EXTENDS Integers, Sequences, FiniteSets, TLC

\* ---------------------------------------------------------------- bounds
\* number of distinct values uuid.uuid4() can return in a run
MaxUuids == 2
\* last instant the clock reaches
MaxTime == 1
\* how many of the sample requests clients send
NumSamples == 3

\* longest flavor list and largest extra_shot of the request space tried whole
MaxTryFlavors == 4
MaxTryShots == 6
\* the handler coroutines that may be in progress at once
MaxTasks == 2

\* ------------------------------------------------------------- constants
HTTP_200_OK == 200
HTTP_201_CREATED == 201
HTTP_400_BAD_REQUEST == 400
HTTP_404_NOT_FOUND == 404
HTTP_422_UNPROCESSABLE == 422

MaxExtraShots == 5
MaxFlavors == 3
MaxInstructions == 200

\* ---------------------------------------------------------------- values
None == <<>>
Some(v) == <<v>>

SizeEnum == {"small", "medium", "large"}
CoffeeTypeEnum == {"iced", "hot"}
FlavorEnum == {"french vanilla", "hazelnut", "caramel", "mocha", "vanilla", "cinnamon"}
MilkTypeEnum == {"whole", "oat", "almond", "soy", "none"}
StatusLiteral == {"received", "preparing", "ready", "completed"}

UUIDs == 1..MaxUuids

\* ------------------------------------------------------- sample requests
\* c * n: the string c repeated n times
RECURSIVE Repeat(_, _)
Repeat(c, n) ==
    IF n = 0 THEN ""
    ELSE LET half == Repeat(c, n \div 2)
         IN  IF n % 2 = 0 THEN half \o half ELSE half \o half \o c

simple_hot ==
    [size |-> "small", coffee_type |-> "hot", flavors |-> <<>>, milk |-> None,
     extra_shot |-> None, special_instructions |-> None]

too_many_flavors ==
    [size |-> "medium", coffee_type |-> "hot",
     flavors |-> <<"hazelnut", "caramel", "mocha", "vanilla">>, milk |-> None,
     extra_shot |-> None, special_instructions |-> None]

complex_order ==
    [size |-> "large", coffee_type |-> "iced", flavors |-> <<"hazelnut", "caramel">>,
     milk |-> Some("oat"), extra_shot |-> Some(2),
     special_instructions |-> Some("Extra cold, light ice")]

negative_extra_shots ==
    [size |-> "large", coffee_type |-> "iced", flavors |-> <<>>, milk |-> None,
     extra_shot |-> Some(-1), special_instructions |-> None]

max_extra_shots ==
    [size |-> "large", coffee_type |-> "hot", flavors |-> <<>>, milk |-> None,
     extra_shot |-> Some(5), special_instructions |-> None]

special_instructions_too_long ==
    [size |-> "small", coffee_type |-> "hot", flavors |-> <<>>, milk |-> None,
     extra_shot |-> None, special_instructions |-> Some(Repeat("x", 300))]

SampleOrders ==
    <<simple_hot, too_many_flavors, complex_order, negative_extra_shots,
      max_extra_shots, special_instructions_too_long>>

Min(a, b) == IF a < b THEN a ELSE b
Max(a, b) == IF a > b THEN a ELSE b

\* the request bodies clients send
Requests == {SampleOrders[i] : i \in 1..Min(NumSamples, Len(SampleOrders))}

\* ------------------------------------------------------------ validation
\* a validation whose upper limit on extra_shot is exclusive
ValidOrder_shots_below_max(order) ==
    /\ order.size \in SizeEnum
    /\ order.coffee_type \in CoffeeTypeEnum
    /\ \A i \in 1..Len(order.flavors) : order.flavors[i] \in FlavorEnum
    /\ Len(order.flavors) <= MaxFlavors
    /\ order.milk # None => order.milk[1] \in MilkTypeEnum
    /\ order.extra_shot # None =>
          (order.extra_shot[1] >= 0 /\ order.extra_shot[1] < MaxExtraShots)
    /\ order.special_instructions # None =>
          Len(order.special_instructions[1]) <= MaxInstructions

\* a schema without the upper limit of extra_shot
ValidOrder_unlimited_shots(order) ==
    /\ order.size \in SizeEnum
    /\ order.coffee_type \in CoffeeTypeEnum
    /\ \A i \in 1..Len(order.flavors) : order.flavors[i] \in FlavorEnum
    /\ Len(order.flavors) <= MaxFlavors
    /\ order.milk # None => order.milk[1] \in MilkTypeEnum
    /\ order.extra_shot # None => order.extra_shot[1] >= 0
    /\ order.special_instructions # None =>
          Len(order.special_instructions[1]) <= MaxInstructions

\* a schema without the lower limit of extra_shot
ValidOrder_any_shots(order) ==
    /\ order.size \in SizeEnum
    /\ order.coffee_type \in CoffeeTypeEnum
    /\ \A i \in 1..Len(order.flavors) : order.flavors[i] \in FlavorEnum
    /\ Len(order.flavors) <= MaxFlavors
    /\ order.milk # None => order.milk[1] \in MilkTypeEnum
    /\ order.extra_shot # None => order.extra_shot[1] <= MaxExtraShots
    /\ order.special_instructions # None =>
          Len(order.special_instructions[1]) <= MaxInstructions

\* models.py CoffeeOrder: field constraints and validators
ValidOrder(order) ==
    /\ order.size \in SizeEnum
    /\ order.coffee_type \in CoffeeTypeEnum
    /\ \A i \in 1..Len(order.flavors) : order.flavors[i] \in FlavorEnum
    /\ Len(order.flavors) <= MaxFlavors
    /\ order.milk # None => order.milk[1] \in MilkTypeEnum
    /\ order.extra_shot # None =>
          (order.extra_shot[1] >= 0 /\ order.extra_shot[1] <= MaxExtraShots)
    /\ order.special_instructions # None =>
          Len(order.special_instructions[1]) <= MaxInstructions

\* ----------------------------------------------------------- calculators
\* PRICING["base_prices"], in mills
BasePrice(size) ==
    CASE size = "small" -> 3500
      [] size = "medium" -> 4250
      [] size = "large" -> 4950

ExtraShotPrice == 750
FlavorPrice == 500
PremiumMilkPrice == 650

\* Python truthiness of Optional[int]: None and 0 are false
Truthy(opt) == opt # None /\ opt[1] # 0

\* round(x, 2) of an amount in mills: the nearest cent, ties to the even cent
Round2(mills) ==
    LET q == mills \div 10
        r == mills % 10
    IN  IF r < 5 THEN q
        ELSE IF r > 5 THEN q + 1
        ELSE IF q % 2 = 0 THEN q ELSE q + 1

\* a price that charges the milk surcharge for every milk given
calculate_price_any_milk(order) ==
    LET p0 == BasePrice(order.size)
        p1 == IF Truthy(order.extra_shot)
              THEN p0 + order.extra_shot[1] * ExtraShotPrice ELSE p0
        p2 == p1 + Len(order.flavors) * FlavorPrice
        p3 == IF order.milk # None THEN p2 + PremiumMilkPrice ELSE p2
    IN  Round2(p3)

\* calculate_price: the price in cents
calculate_price(order) ==
    LET p0 == BasePrice(order.size)
        p1 == IF Truthy(order.extra_shot)
              THEN p0 + order.extra_shot[1] * ExtraShotPrice ELSE p0
        p2 == p1 + Len(order.flavors) * FlavorPrice
        p3 == IF order.milk # None /\ order.milk[1] \in {"oat", "almond", "soy"}
              THEN p2 + PremiumMilkPrice ELSE p2
    IN  Round2(p3)

\* a conversion that rounds a half minute up
IntOfHalves_round_up(h) == (h + 1) \div 2

\* int(x) of a non-negative accumulator in half minutes: truncation
IntOfHalves(h) == h \div 2

\* a prep time that counts the extras only: no base time, no minimum
calculate_prep_time_extras_only(order) ==
    LET t0 == 0
        t1 == IF order.coffee_type = "iced" THEN t0 + 2 ELSE t0
        t2 == IF Truthy(order.extra_shot) THEN t1 + order.extra_shot[1] ELSE t1
        t3 == IF Len(order.flavors) > 1 THEN t2 + 2 ELSE t2
    IN  IntOfHalves(t3)

\* calculate_prep_time: minutes
calculate_prep_time(order) ==
    LET t0 == 6
        t1 == IF order.coffee_type = "iced" THEN t0 + 2 ELSE t0
        t2 == IF Truthy(order.extra_shot) THEN t1 + order.extra_shot[1] ELSE t1
        t3 == IF Len(order.flavors) > 1 THEN t2 + 2 ELSE t2
    IN  Max(2, IntOfHalves(t3))

\* ------------------------------------------------------------------ dict
\* orders_db is a Python dict: a sequence of entries in insertion order
Keys(db) == {db[i].key : i \in 1..Len(db)}
Has(db, k) == k \in Keys(db)
IndexOf(db, k) == CHOOSE i \in 1..Len(db) : db[i].key = k
\* a lookup that returns the oldest entry whatever the key
Get_oldest(db, k) == db[1].value

Get(db, k) == db[IndexOf(db, k)].value
\* a write that takes an existing key out and puts it back at the end
Put_at_end(db, k, v) ==
    Append(SelectSeq(db, LAMBDA e : e.key # k), [key |-> k, value |-> v])

\* db[k] = v: an existing key keeps its position
Put(db, k, v) ==
    IF Has(db, k)
    THEN [db EXCEPT ![IndexOf(db, k)] = [key |-> k, value |-> v]]
    ELSE Append(db, [key |-> k, value |-> v])
\* the values of the orders still open: completed orders are left out
Values_open_only(db) ==
    LET open == SelectSeq(db, LAMBDA e : e.value.status # "completed")
    IN  [i \in 1..Len(open) |-> open[i].value]

\* list(db.values())
Values(db) == [i \in 1..Len(db) |-> db[i].value]

\* a delete that drops the oldest entry instead of the entry of key k
Del_oldest(db, k) == Tail(db)

\* del db[k]
Del(db, k) ==
    LET i == IndexOf(db, k)
    IN  SubSeq(db, 1, i - 1) \o SubSeq(db, i + 1, Len(db))

\* ----------------------------------------------------------------- state
VARIABLES
    orders_db,     \* main.py orders_db
    issued,        \* the values uuid.uuid4() has returned so far
    now,           \* the clock datetime.now() reads
    request,       \* the request the handler that ran last was called with
    response,      \* the reply of the handler that ran last
    cancelled,     \* history: identifiers whose cancel succeeded
    everTerminal,  \* history: identifiers that have held status ready or completed
    tasks,         \* the handler coroutines that have started and not returned
    running,       \* the slot of the coroutine the event loop is running, 0 when idle
    returned       \* the object the handler that returned one last handed to its caller

vars == <<orders_db, issued, now, request, response, cancelled, everTerminal,
          tasks, running, returned>>

\* a request: the endpoint, the order_id of the path and the body
Call(op, order_id, body) == [op |-> op, order_id |-> order_id, body |-> body]

\* a reply: the HTTP status code and the body
Reply(code, body) == [code |-> code, body |-> body]

\* the body of an HTTPException
Detail(text) == [detail |-> text]

Init ==
    /\ orders_db = <<>>
    /\ issued = {}
    /\ now = 0
    /\ request = Call("start", None, None)
    /\ response = Reply(HTTP_200_OK, Detail("started"))
    /\ cancelled = {}
    /\ everTerminal = {}
    /\ tasks = [slot \in 1..MaxTasks |-> None]
    /\ running = 0
    /\ returned = None

\* --------------------------------------------------------------- helpers
\* uuid4 drawing from the whole identifier space, used values included
uuid4_reuse(used) == UUIDs

\* uuid.uuid4(): a value never returned before
uuid4(used) == UUIDs \ used

\* a CoffeeOrderResponse built without passing extra_shot on
NewOrderResponse_no_extra_shot(order_id, order, t) ==
    [order_id |-> order_id,
     size |-> order.size,
     coffee_type |-> order.coffee_type,
     flavors |-> order.flavors,
     milk |-> order.milk,
     extra_shot |-> None,
     special_instructions |-> order.special_instructions,
     estimated_price |-> calculate_price(order),
     estimated_prep_time |-> calculate_prep_time(order),
     order_time |-> t,
     status |-> "received"]

\* a CoffeeOrderResponse whose prep time grows with the time of the order
NewOrderResponse_prep_time_by_clock(order_id, order, t) ==
    [order_id |-> order_id,
     size |-> order.size,
     coffee_type |-> order.coffee_type,
     flavors |-> order.flavors,
     milk |-> order.milk,
     extra_shot |-> order.extra_shot,
     special_instructions |-> order.special_instructions,
     estimated_price |-> calculate_price(order),
     estimated_prep_time |-> calculate_prep_time(order) + t,
     order_time |-> t,
     status |-> "received"]

\* the CoffeeOrderResponse create_coffee_order builds
NewOrderResponse(order_id, order, t) ==
    [order_id |-> order_id,
     size |-> order.size,
     coffee_type |-> order.coffee_type,
     flavors |-> order.flavors,
     milk |-> order.milk,
     extra_shot |-> order.extra_shot,
     special_instructions |-> order.special_instructions,
     estimated_price |-> calculate_price(order),
     estimated_prep_time |-> calculate_prep_time(order),
     order_time |-> t,
     status |-> "received"]

\* the place of a status in received -> preparing -> ready -> completed
Rank(s) ==
    CASE s = "received" -> 1
      [] s = "preparing" -> 2
      [] s = "ready" -> 3
      [] s = "completed" -> 4

\* a status write that ignores a move backwards
SetStatus_forward_only(order, s) ==
    IF Rank(s) >= Rank(order.status) THEN [order EXCEPT !.status = s] ELSE order

\* a status write that also zeroes the remaining prep time of a completed order
SetStatus_zero_prep_time(order, s) ==
    [order EXCEPT !.status = s,
                  !.estimated_prep_time = IF s = "completed" THEN 0 ELSE @]

\* order.status = status_update.status
SetStatus(order, s) == [order EXCEPT !.status = s]

\* an estimated ready time counted from the order's creation, not from now
EstimatedReadyTime_from_order_time(s, order, t) ==
    IF s = "preparing" THEN Some(order.order_time + order.estimated_prep_time) ELSE None

\* the estimated ready time update_order_status returns
EstimatedReadyTime(s, order, t) ==
    IF s = "preparing" THEN Some(t + order.estimated_prep_time) ELSE None

\* a refusal that forgets status ready
CancelRefused_completed_only(order) == order.status = "completed"

\* cancel_order refuses an order in one of these statuses
CancelRefused(order) == order.status \in {"ready", "completed"}

\* ---------------------------------------------------------------- actions
\* time passes between requests
Tick ==
    /\ now < MaxTime
    /\ now' = now + 1
    /\ UNCHANGED <<orders_db, issued, request, response, cancelled>>

\* a menu request that empties the store
get_menu_resets ==
    /\ request' = Call("menu", None, None)
    /\ response' = Reply(HTTP_200_OK,
                         [sizes |-> SizeEnum, coffee_types |-> CoffeeTypeEnum,
                          flavors |-> FlavorEnum, milk_types |-> MilkTypeEnum,
                          max_extra_shots |-> MaxExtraShots, max_flavors |-> MaxFlavors])
    /\ orders_db' = <<>>
    /\ UNCHANGED <<issued, now, cancelled>>

\* GET /menu: the members of the four enumerations and the two limits
get_menu ==
    /\ request' = Call("menu", None, None)
    /\ response' = Reply(HTTP_200_OK,
                         [sizes |-> SizeEnum, coffee_types |-> CoffeeTypeEnum,
                          flavors |-> FlavorEnum, milk_types |-> MilkTypeEnum,
                          max_extra_shots |-> MaxExtraShots, max_flavors |-> MaxFlavors])
    /\ UNCHANGED <<orders_db, issued, now, cancelled>>

\* a rejection that has already stored the order when it answers 422
create_rejected_after_store(order) ==
    /\ ~ValidOrder(order)
    /\ \E order_id \in uuid4(issued) :
          /\ issued' = issued \cup {order_id}
          /\ orders_db' = Put(orders_db, order_id, NewOrderResponse(order_id, order, now))
    /\ request' = Call("create", None, order)
    /\ response' = Reply(HTTP_422_UNPROCESSABLE, Detail("validation error"))
    /\ UNCHANGED <<now, cancelled>>

\* POST /orders with a body the request schema rejects
create_rejected(order) ==
    /\ ~ValidOrder(order)
    /\ request' = Call("create", None, order)
    /\ response' = Reply(HTTP_422_UNPROCESSABLE, Detail("validation error"))
    /\ UNCHANGED <<orders_db, issued, now, cancelled>>

\* a create that draws one identifier for the record and another for the key
create_coffee_order_second_uuid(order) ==
    /\ ValidOrder(order)
    /\ \E order_id \in uuid4(issued) :
          \E key \in uuid4(issued \cup {order_id}) :
             LET order_response == NewOrderResponse(order_id, order, now)
             IN  /\ issued' = issued \cup {order_id, key}
                 /\ orders_db' = Put(orders_db, key, order_response)
                 /\ response' = Reply(HTTP_201_CREATED, order_response)
    /\ request' = Call("create", None, order)
    /\ UNCHANGED <<now, cancelled>>

\* POST /orders
create_coffee_order(order) ==
    /\ ValidOrder(order)
    /\ \E order_id \in uuid4(issued) :
          LET order_response == NewOrderResponse(order_id, order, now)
          IN  /\ issued' = issued \cup {order_id}
              /\ orders_db' = Put(orders_db, order_id, order_response)
              /\ response' = Reply(HTTP_201_CREATED, order_response)
    /\ request' = Call("create", None, order)
    /\ UNCHANGED <<now, cancelled>>

\* GET /orders
get_all_orders ==
    /\ request' = Call("list", None, None)
    /\ response' = Reply(HTTP_200_OK, Values(orders_db))
    /\ UNCHANGED <<orders_db, issued, now, cancelled>>

\* GET /orders/{order_id}
get_order(order_id) ==
    /\ request' = Call("get", Some(order_id), None)
    /\ response' =
          IF ~Has(orders_db, order_id)
          THEN Reply(HTTP_404_NOT_FOUND, Detail("not found"))
          ELSE Reply(HTTP_200_OK, Get(orders_db, order_id))
    /\ UNCHANGED <<orders_db, issued, now, cancelled>>

\* an update that writes the new status into every stored order
update_order_status_every_order(order_id, s) ==
    /\ request' = Call("update", Some(order_id), [status |-> s])
    /\ IF ~Has(orders_db, order_id)
       THEN /\ response' = Reply(HTTP_404_NOT_FOUND, Detail("not found"))
            /\ UNCHANGED <<orders_db, issued, now, cancelled>>
       ELSE LET order == SetStatus(Get(orders_db, order_id), s)
            IN  /\ orders_db' =
                      [i \in 1..Len(orders_db) |->
                          [key |-> orders_db[i].key,
                           value |-> SetStatus(orders_db[i].value, s)]]
                /\ response' =
                      Reply(HTTP_200_OK,
                            [order_id |-> order_id, status |-> s,
                             estimated_ready_time |-> EstimatedReadyTime(s, order, now)])
                /\ UNCHANGED <<issued, now, cancelled>>

\* PATCH /orders/{order_id}/status
update_order_status(order_id, s) ==
    /\ request' = Call("update", Some(order_id), [status |-> s])
    /\ IF ~Has(orders_db, order_id)
       THEN /\ response' = Reply(HTTP_404_NOT_FOUND, Detail("not found"))
            /\ UNCHANGED <<orders_db, issued, now, cancelled>>
       ELSE LET order == SetStatus(Get(orders_db, order_id), s)
            IN  /\ orders_db' = Put(orders_db, order_id, order)
                /\ response' =
                      Reply(HTTP_200_OK,
                            [order_id |-> order_id, status |-> s,
                             estimated_ready_time |-> EstimatedReadyTime(s, order, now)])
                /\ UNCHANGED <<issued, now, cancelled>>

\* a cancel that answers 200 for an identifier that is not stored
cancel_order_idempotent(order_id) ==
    /\ request' = Call("cancel", Some(order_id), None)
    /\ IF ~Has(orders_db, order_id)
       THEN /\ response' = Reply(HTTP_200_OK, [message |-> "cancelled"])
            /\ UNCHANGED <<orders_db, issued, now, cancelled>>
       ELSE IF CancelRefused(Get(orders_db, order_id))
       THEN /\ response' = Reply(HTTP_400_BAD_REQUEST,
                                 Detail("Cannot cancel order that is ready or completed"))
            /\ UNCHANGED <<orders_db, issued, now, cancelled>>
       ELSE /\ orders_db' = Del(orders_db, order_id)
            /\ response' = Reply(HTTP_200_OK, [message |-> "cancelled"])
            /\ cancelled' = cancelled \cup {order_id}
            /\ UNCHANGED <<issued, now>>

\* a cancel that answers a refusal with the signal of an unknown identifier
cancel_order_refusal_as_not_found(order_id) ==
    /\ request' = Call("cancel", Some(order_id), None)
    /\ IF ~Has(orders_db, order_id)
       THEN /\ response' = Reply(HTTP_404_NOT_FOUND, Detail("not found"))
            /\ UNCHANGED <<orders_db, issued, now, cancelled>>
       ELSE IF CancelRefused(Get(orders_db, order_id))
       THEN /\ response' = Reply(HTTP_404_NOT_FOUND,
                                 Detail("Cannot cancel order that is ready or completed"))
            /\ UNCHANGED <<orders_db, issued, now, cancelled>>
       ELSE /\ orders_db' = Del(orders_db, order_id)
            /\ response' = Reply(HTTP_200_OK, [message |-> "cancelled"])
            /\ cancelled' = cancelled \cup {order_id}
            /\ UNCHANGED <<issued, now>>

\* DELETE /orders/{order_id}
cancel_order(order_id) ==
    /\ request' = Call("cancel", Some(order_id), None)
    /\ IF ~Has(orders_db, order_id)
       THEN /\ response' = Reply(HTTP_404_NOT_FOUND, Detail("not found"))
            /\ UNCHANGED <<orders_db, issued, now, cancelled>>
       ELSE IF CancelRefused(Get(orders_db, order_id))
       THEN /\ response' = Reply(HTTP_400_BAD_REQUEST,
                                 Detail("Cannot cancel order that is ready or completed"))
            /\ UNCHANGED <<orders_db, issued, now, cancelled>>
       ELSE /\ orders_db' = Del(orders_db, order_id)
            /\ response' = Reply(HTTP_200_OK, [message |-> "cancelled"])
            /\ cancelled' = cancelled \cup {order_id}
            /\ UNCHANGED <<issued, now>>

\* datetime.isoformat(): the text that stands for the time t
isoformat(t) == [iso8601 |-> t]

\* a health check that counts every order ever created
health_check_counts_created ==
    /\ request' = Call("health", None, None)
    /\ response' = Reply(HTTP_200_OK,
                         [status |-> "healthy", timestamp |-> isoformat(now),
                          total_orders |-> Cardinality(issued)])
    /\ UNCHANGED <<orders_db, issued, now, cancelled>>

\* GET /health
health_check ==
    /\ request' = Call("health", None, None)
    /\ response' = Reply(HTTP_200_OK,
                         [status |-> "healthy", timestamp |-> isoformat(now),
                          total_orders |-> Len(orders_db)])
    /\ UNCHANGED <<orders_db, issued, now, cancelled>>

\* the identifiers whose stored order is ready or completed
TerminalKeys(db) == {db[i].key : i \in {j \in 1..Len(db) : db[j].value.status \in {"ready", "completed"}}}

\* a step that keeps no history of statuses
Untracked(A) == A /\ UNCHANGED <<everTerminal, tasks, running, returned>>

\* a step that records the identifiers it leaves ready or completed
Tracked(A) ==
    /\ A
    /\ everTerminal' = everTerminal \cup TerminalKeys(orders_db')
    /\ UNCHANGED <<tasks, running, returned>>

Next ==
    \/ Untracked(Tick)
    \/ \E order \in Requests : Untracked(create_rejected(order))
    \/ \E order \in Requests : Untracked(create_coffee_order(order))
    \/ Untracked(get_all_orders)
    \/ \E order_id \in UUIDs : Untracked(get_order(order_id))
    \/ \E order_id \in UUIDs, s \in StatusLiteral : Untracked(update_order_status(order_id, s))
    \/ \E order_id \in UUIDs : Untracked(cancel_order(order_id))
    \/ Untracked(health_check)

Spec == Init /\ [][Next]_vars

NextHistory ==
    \/ Tracked(Tick)
    \/ \E order \in Requests : Tracked(create_rejected(order))
    \/ \E order \in Requests : Tracked(create_coffee_order(order))
    \/ Tracked(get_all_orders)
    \/ \E order_id \in UUIDs : Tracked(get_order(order_id))
    \/ \E order_id \in UUIDs, s \in StatusLiteral : Tracked(update_order_status(order_id, s))
    \/ \E order_id \in UUIDs : Tracked(cancel_order(order_id))
    \/ Tracked(health_check)

\* Spec with the history of terminal statuses recorded in everTerminal
SpecHistory == Init /\ [][NextHistory]_vars

NextMenu ==
    \/ Next
    \/ Untracked(get_menu)

\* Spec with the menu endpoint
SpecMenu == Init /\ [][NextMenu]_vars

\* ------------------------------------------------- the whole request space
\* the flavors the request space is built from
TryFlavors == {"hazelnut", "caramel"}

\* the request bodies with valid enumerated fields: every size, temperature
\* and milk, the flavor lists up to MaxTryFlavors, extra_shot absent or
\* -1..MaxTryShots, instructions absent or at either side of the limit
TryOrders ==
    [size : SizeEnum,
     coffee_type : CoffeeTypeEnum,
     flavors : UNION {[1..n -> TryFlavors] : n \in 0..MaxTryFlavors},
     milk : {None} \cup {Some(m) : m \in MilkTypeEnum},
     extra_shot : {None} \cup {Some(n) : n \in -1..MaxTryShots},
     special_instructions :
        {None, Some(Repeat("x", MaxInstructions)), Some(Repeat("x", MaxInstructions + 1))}]

\* a client is about to post one body of the request space to the empty store
InitCalc ==
    /\ orders_db = <<>>
    /\ issued = {}
    /\ now = 0
    /\ request \in {Call("pending", None, order) : order \in TryOrders}
    /\ response = Reply(HTTP_200_OK, Detail("started"))
    /\ cancelled = {}
    /\ everTerminal = {}
    /\ tasks = [slot \in 1..MaxTasks |-> None]
    /\ running = 0
    /\ returned = None

\* the body is posted; the order it creates then has its status updated
NextCalc ==
    \/ /\ request.op = "pending"
       /\ Untracked(create_rejected(request.body))
    \/ /\ request.op = "pending"
       /\ Untracked(create_coffee_order(request.body))
    \/ \E order_id \in Keys(orders_db), s \in StatusLiteral :
          Untracked(update_order_status(order_id, s))

\* one request of the whole request space, posted to the empty store
SpecCalc == InitCalc /\ [][NextCalc]_vars

\* ---------------------------------------------------------- the event loop
\* the reply to a handler that raised an exception it does not catch
HTTP_500_INTERNAL == 500

\* a handler body with an await between its checks and its write
Awaits_before_write(op, pc) == pc \in {"write", "status", "delete"}

\* the coroutine awaits before statement pc of handler op: the handler bodies
\* of main.py hold no await expression
Awaits(op, pc) == FALSE

\* a coroutine: the call it serves, its next statement, its local order_response
Task(op, order_id, body, pc, local) ==
    [op |-> op, order_id |-> order_id, body |-> body, pc |-> pc, local |-> local]

\* the calls whose handler coroutines are run statement by statement
Calls ==
    {Call("create", None, order) : order \in {r \in Requests : ValidOrder(r)}}
    \cup {Call("list", None, None)}
    \cup {Call("get", Some(id), None) : id \in UUIDs}
    \cup {Call("update", Some(id), [status |-> s]) : id \in UUIDs, s \in StatusLiteral}
    \cup {Call("cancel", Some(id), None) : id \in UUIDs}

Busy == {slot \in 1..MaxTasks : tasks[slot] # None}

\* the loop runs the coroutine of slot next: it is the one running, or the
\* loop is idle and the coroutine is suspended
Runnable(slot, op) ==
    /\ slot \in Busy
    /\ tasks[slot][1].op = op
    /\ running \in {0, slot}

\* the idle loop starts the handler coroutine of a call
Start(call) ==
    /\ running = 0
    /\ Busy # 1..MaxTasks
    /\ LET slot == CHOOSE free \in 1..MaxTasks \ Busy :
                      \A other \in 1..MaxTasks \ Busy : free <= other
       IN  /\ tasks' = [tasks EXCEPT ![slot] =
                           Some(Task(call.op, call.order_id, call.body, "entry", None))]
           /\ running' = slot
    /\ UNCHANGED <<orders_db, issued, now, request, response, cancelled,
                   everTerminal, returned>>

\* the coroutine of slot returns or raises: the reply goes out, the loop is idle
Finish(slot, reply) ==
    LET t == tasks[slot][1]
    IN  /\ tasks' = [tasks EXCEPT ![slot] = None]
        /\ running' = 0
        /\ request' = Call(t.op, t.order_id, t.body)
        /\ response' = reply

\* the coroutine of slot goes on to statement pc, leaving the loop if it awaits
Goto(slot, pc, local) ==
    LET t == tasks[slot][1]
    IN  /\ tasks' = [tasks EXCEPT ![slot] = Some([t EXCEPT !.pc = pc, !.local = local])]
        /\ running' = IF Awaits(t.op, pc) THEN 0 ELSE slot
        /\ UNCHANGED <<request, response>>

\* the variables no statement of a handler writes
Aside == <<now, everTerminal, returned>>

\* a create that stores the record before its status is set, awaits, and
\* sets the status afterwards
create_coffee_order_step_store_then_fill(slot) ==
    /\ Runnable(slot, "create")
    /\ LET t == tasks[slot][1]
       IN  IF t.pc = "entry"
           THEN \E order_id \in uuid4(issued) :
                   LET order_response == NewOrderResponse(order_id, t.body, now)
                       partial == [f \in DOMAIN order_response \ {"status"} |->
                                      order_response[f]]
                   IN  /\ issued' = issued \cup {order_id}
                       /\ orders_db' = Put(orders_db, order_id, partial)
                       /\ tasks' = [tasks EXCEPT ![slot] =
                                       Some([t EXCEPT !.pc = "store",
                                                      !.local = Some(order_response)])]
                       /\ running' = 0
                       /\ UNCHANGED <<request, response, cancelled>>
           ELSE /\ orders_db' = Put(orders_db, t.local[1].order_id, t.local[1])
                /\ Finish(slot, Reply(HTTP_201_CREATED, t.local[1]))
                /\ UNCHANGED <<issued, cancelled>>
    /\ UNCHANGED Aside

\* create_coffee_order, a statement at a time: the record is built in a
\* local, then stored and returned
create_coffee_order_step(slot) ==
    /\ Runnable(slot, "create")
    /\ LET t == tasks[slot][1]
       IN  IF t.pc = "entry"
           THEN \E order_id \in uuid4(issued) :
                   /\ issued' = issued \cup {order_id}
                   /\ Goto(slot, "store", Some(NewOrderResponse(order_id, t.body, now)))
                   /\ UNCHANGED <<orders_db, cancelled>>
           ELSE /\ orders_db' = Put(orders_db, t.local[1].order_id, t.local[1])
                /\ Finish(slot, Reply(HTTP_201_CREATED, t.local[1]))
                /\ UNCHANGED <<issued, cancelled>>
    /\ UNCHANGED Aside

\* get_all_orders: one statement
get_all_orders_step(slot) ==
    /\ Runnable(slot, "list")
    /\ Finish(slot, Reply(HTTP_200_OK, Values(orders_db)))
    /\ UNCHANGED <<orders_db, issued, cancelled>>
    /\ UNCHANGED Aside

\* get_order: the membership test, then the lookup that is returned
get_order_step(slot) ==
    /\ Runnable(slot, "get")
    /\ LET t == tasks[slot][1]
           order_id == t.order_id[1]
       IN  IF t.pc = "entry"
           THEN IF ~Has(orders_db, order_id)
                THEN Finish(slot, Reply(HTTP_404_NOT_FOUND, Detail("not found")))
                ELSE Goto(slot, "return", None)
           ELSE IF ~Has(orders_db, order_id)
                THEN Finish(slot, Reply(HTTP_500_INTERNAL, Detail("KeyError")))
                ELSE Finish(slot, Reply(HTTP_200_OK, Get(orders_db, order_id)))
    /\ UNCHANGED <<orders_db, issued, cancelled>>
    /\ UNCHANGED Aside

\* update_order_status: the membership test, then the lookup, the status
\* write and the reply
update_order_status_step(slot) ==
    /\ Runnable(slot, "update")
    /\ LET t == tasks[slot][1]
           order_id == t.order_id[1]
           s == t.body.status
       IN  IF t.pc = "entry"
           THEN /\ IF ~Has(orders_db, order_id)
                   THEN Finish(slot, Reply(HTTP_404_NOT_FOUND, Detail("not found")))
                   ELSE Goto(slot, "write", None)
                /\ UNCHANGED orders_db
           ELSE IF ~Has(orders_db, order_id)
                THEN /\ Finish(slot, Reply(HTTP_500_INTERNAL, Detail("KeyError")))
                     /\ UNCHANGED orders_db
                ELSE LET order == SetStatus(Get(orders_db, order_id), s)
                     IN  /\ orders_db' = Put(orders_db, order_id, order)
                         /\ Finish(slot,
                               Reply(HTTP_200_OK,
                                     [order_id |-> order_id, status |-> s,
                                      estimated_ready_time |->
                                         EstimatedReadyTime(s, order, now)]))
    /\ UNCHANGED <<issued, cancelled>>
    /\ UNCHANGED Aside

\* cancel_order: the membership test, then the lookup and the status test,
\* then the del and the reply
cancel_order_step(slot) ==
    /\ Runnable(slot, "cancel")
    /\ LET t == tasks[slot][1]
           order_id == t.order_id[1]
       IN  IF t.pc = "entry"
           THEN /\ IF ~Has(orders_db, order_id)
                   THEN Finish(slot, Reply(HTTP_404_NOT_FOUND, Detail("not found")))
                   ELSE Goto(slot, "status", None)
                /\ UNCHANGED <<orders_db, cancelled>>
           ELSE IF ~Has(orders_db, order_id)
           THEN /\ Finish(slot, Reply(HTTP_500_INTERNAL, Detail("KeyError")))
                /\ UNCHANGED <<orders_db, cancelled>>
           ELSE IF t.pc = "status"
           THEN /\ IF CancelRefused(Get(orders_db, order_id))
                   THEN Finish(slot, Reply(HTTP_400_BAD_REQUEST,
                               Detail("Cannot cancel order that is ready or completed")))
                   ELSE Goto(slot, "delete", None)
                /\ UNCHANGED <<orders_db, cancelled>>
           ELSE /\ orders_db' = Del(orders_db, order_id)
                /\ cancelled' = cancelled \cup {order_id}
                /\ Finish(slot, Reply(HTTP_200_OK, [message |-> "cancelled"]))
    /\ UNCHANGED issued
    /\ UNCHANGED Aside

NextLoop ==
    \/ \E call \in Calls : Start(call)
    \/ \E slot \in 1..MaxTasks : create_coffee_order_step(slot)
    \/ \E slot \in 1..MaxTasks : get_all_orders_step(slot)
    \/ \E slot \in 1..MaxTasks : get_order_step(slot)
    \/ \E slot \in 1..MaxTasks : update_order_status_step(slot)
    \/ \E slot \in 1..MaxTasks : cancel_order_step(slot)

\* the handlers as coroutines of one event loop, run a statement at a time
SpecLoop == Init /\ [][NextLoop]_vars

\* ------------------------------------------------- what a handler returns
\* a reference to the object stored under key k, with the value seen through
\* it when it was handed over
Ref(k, seen) == [ref |-> k, seen |-> seen]

\* a step whose return value the caller keeps: create returns the
\* order_response it has just stored, get returns orders_db[order_id], both
\* the stored object itself
Handed(A) ==
    /\ A
    /\ returned' =
          IF request'.op \in {"create", "get"}
             /\ response'.code \in {HTTP_200_OK, HTTP_201_CREATED}
          THEN Some(Ref(response'.body.order_id, response'.body))
          ELSE returned
    /\ UNCHANGED <<everTerminal, tasks, running>>

NextHanded ==
    \/ \E order \in Requests : Handed(create_coffee_order(order))
    \/ \E order_id \in UUIDs : Handed(get_order(order_id))
    \/ \E order_id \in UUIDs, s \in StatusLiteral : Handed(update_order_status(order_id, s))
    \/ \E order_id \in UUIDs : Handed(cancel_order(order_id))

\* the handlers with the object each hands to its caller
SpecHanded == Init /\ [][NextHanded]_vars

\* ================================================================ claims
\* the step is the handler of `op` called on order_id `id`
Handles(op, id) ==
    /\ now' = now
    /\ request'.op = op
    /\ request'.order_id = Some(id)

\* the stored order of key id is in one of the statuses S
StoredIn(db, id, S) == Has(db, id) /\ Get(db, id).status \in S

\* every entry of db other than id is in db2 with the same record
OthersKept(db, db2, id) ==
    \A k \in Keys(db) \ {id} : Has(db2, k) /\ Get(db2, k) = Get(db, k)

\* C1: cancel(id) on a stored order whose status is ready or completed is
\* answered 400 (Conflict) and leaves the store as it was
C1_CancelTerminalRefused ==
    [][\A id \in UUIDs :
          (Handles("cancel", id) /\ StoredIn(orders_db, id, {"ready", "completed"}))
          => (/\ response'.code = HTTP_400_BAD_REQUEST
              /\ orders_db' = orders_db)]_vars

C1_Witness ==
    /\ request.op = "cancel"
    /\ response.code = HTTP_400_BAD_REQUEST
    /\ \E id \in UUIDs : request.order_id = Some(id) /\ StoredIn(orders_db, id, {"ready"})

\* C2: an order that has once been ready or completed is never removed from
\* the store by a later cancel
C2_TerminalNeverDeleted ==
    \A id \in everTerminal : Has(orders_db, id)

\* C3: an identifier whose cancel succeeded is absent from the store in every
\* later state, and a get of it is answered 404
C3_CancelIrreversible ==
    \A id \in cancelled :
       /\ ~Has(orders_db, id)
       /\ (request.op = "get" /\ request.order_id = Some(id))
             => response.code = HTTP_404_NOT_FOUND

C3_Witness ==
    /\ issued = UUIDs
    /\ Len(orders_db) > 0
    /\ request.op = "get"
    /\ \E id \in cancelled : request.order_id = Some(id)
    /\ response.code = HTTP_404_NOT_FOUND

\* C4: cancel(id) on a stored order whose status is received or preparing is
\* answered 200 and removes that entry and no other: id is absent afterwards,
\* the store holds one entry less, the other entries are as they were
C4_CancelRemovesExactlyOne ==
    [][\A id \in UUIDs :
          (Handles("cancel", id) /\ StoredIn(orders_db, id, {"received", "preparing"}))
          => (/\ response'.code = HTTP_200_OK
              /\ ~Has(orders_db', id)
              /\ Len(orders_db') = Len(orders_db) - 1
              /\ Keys(orders_db') = Keys(orders_db) \ {id}
              /\ OthersKept(orders_db, orders_db', id))]_vars

C4_Witness ==
    /\ request.op = "cancel"
    /\ response.code = HTTP_200_OK
    /\ Len(orders_db) = 1
    /\ \E id \in cancelled : request.order_id = Some(id) /\ ~Has(orders_db, id)

\* C5: update_status(id, s) on a stored order is answered 200 for every s
\* and every current status, a move backwards included; the stored status
\* then is s, and a get(id) that follows reports s
C5_AnyStatusAccepted ==
    [][/\ \A id \in UUIDs :
             (Handles("update", id) /\ Has(orders_db, id))
             => (/\ response'.code = HTTP_200_OK
                 /\ response'.body.status = request'.body.status
                 /\ Get(orders_db', id).status = request'.body.status)
       /\ \A id \in UUIDs :
             (/\ request.op = "update" /\ request.order_id = Some(id)
              /\ response.code = HTTP_200_OK
              /\ Handles("get", id))
             => (/\ response'.code = HTTP_200_OK
                 /\ response'.body.status = request.body.status)]_vars

\* a stored order has been moved to completed, and the update that moves it
\* back to received is answered 200 and stores received
C5_Witness ==
    \E id \in UUIDs :
       /\ request.op = "update"
       /\ request.order_id = Some(id)
       /\ response.code = HTTP_200_OK
       /\ StoredIn(orders_db, id, {"completed"})
       /\ ENABLED (/\ Untracked(update_order_status(id, "received"))
                   /\ response'.code = HTTP_200_OK
                   /\ Get(orders_db', id).status = "received")

\* the fields of an order request
RequestFields ==
    {"size", "coffee_type", "flavors", "milk", "extra_shot", "special_instructions"}

\* C6: a create answered 201 adds one entry under an identifier that was not
\* stored, with status received, the request's fields, the price and the prep
\* time of the request; the entries stored before are as they were
C6_CreateAddsOne ==
    [][(now' = now /\ request'.op = "create" /\ response'.code = HTTP_201_CREATED)
       => LET order == request'.body
              r == response'.body
              id == r.order_id
          IN  /\ ~Has(orders_db, id)
              /\ Len(orders_db') = Len(orders_db) + 1
              /\ Keys(orders_db') = Keys(orders_db) \cup {id}
              /\ Get(orders_db', id) = r
              /\ r.status = "received"
              /\ \A f \in RequestFields : r[f] = order[f]
              /\ r.estimated_price = calculate_price(order)
              /\ r.estimated_prep_time = calculate_prep_time(order)
              /\ OthersKept(orders_db, orders_db', id)]_vars

C6_Witness ==
    /\ request.op = "create"
    /\ request.body = complex_order
    /\ response.code = HTTP_201_CREATED
    /\ response.body.estimated_price = 810
    /\ response.body.estimated_prep_time = 6
    /\ Len(orders_db) = 2
    /\ orders_db[2].value = response.body

\* C7: a get of the identifier a create has just returned is answered 200
\* with the record the create returned, field for field, status received
C7_CreateGetRoundTrip ==
    [][(/\ request.op = "create"
        /\ response.code = HTTP_201_CREATED
        /\ now' = now
        /\ request'.op = "get"
        /\ request'.order_id = Some(response.body.order_id))
       => (/\ response'.code = HTTP_200_OK
           /\ response'.body = response.body
           /\ response'.body.status = "received")]_vars

C7_Witness ==
    /\ request.op = "get"
    /\ response.code = HTTP_200_OK
    /\ Len(orders_db) = 2
    /\ request.order_id = Some(orders_db[2].key)
    /\ response.body = orders_db[2].value
    /\ response.body.status = "received"
    /\ response.body.order_time = now
    /\ response.body # orders_db[1].value

\* a record with its status blanked: the fields no operation may change
Fixed(r) == [r EXCEPT !.status = "received"]

\* C8: a stored record changes in its status only: every other field of an
\* entry is the same after every step, and an entry is stored only under an
\* identifier never used before
C8_OnlyStatusMutates ==
    [][/\ \A k \in Keys(orders_db) \cap Keys(orders_db') :
             Fixed(Get(orders_db', k)) = Fixed(Get(orders_db, k))
       /\ \A k \in Keys(orders_db') \ Keys(orders_db) : k \notin issued]_vars

C8_Witness ==
    /\ request.op = "update"
    /\ response.code = HTTP_200_OK
    /\ request.body.status = "completed"
    /\ \E id \in UUIDs :
          /\ request.order_id = Some(id)
          /\ StoredIn(orders_db, id, {"completed"})
          /\ Get(orders_db, id).order_time < now
          /\ Get(orders_db, id).estimated_prep_time = 6

\* C9: update_status(id, s) on a stored order returns an estimated ready
\* time exactly when s is preparing, equal to now plus the stored prep time,
\* and the stored record gets no such field
C9_ReadyTimeOnlyWhenPreparing ==
    [][\A id \in UUIDs :
          (Handles("update", id) /\ Has(orders_db, id))
          => LET s == request'.body.status
                 ready == response'.body.estimated_ready_time
             IN  /\ (ready # None) <=> (s = "preparing")
                 /\ s = "preparing"
                       => ready = Some(now + Get(orders_db, id).estimated_prep_time)
                 /\ DOMAIN Get(orders_db', id) = DOMAIN Get(orders_db, id)
                 /\ "estimated_ready_time" \notin DOMAIN Get(orders_db', id)]_vars

C9_Witness ==
    /\ request.op = "update"
    /\ request.body.status = "preparing"
    /\ response.code = HTTP_200_OK
    /\ \E id \in UUIDs :
          /\ request.order_id = Some(id)
          /\ Has(orders_db, id)
          /\ Get(orders_db, id).order_time < now
          /\ response.body.estimated_ready_time
                = Some(now + Get(orders_db, id).estimated_prep_time)

\* C10: get, update_status and cancel of an identifier that is not stored
\* are answered 404 and leave the store as it was
C10_AbsentIsNotFound ==
    [][\A id \in UUIDs :
          (/\ now' = now
           /\ request'.op \in {"get", "update", "cancel"}
           /\ request'.order_id = Some(id)
           /\ ~Has(orders_db, id))
          => (/\ response'.code = HTTP_404_NOT_FOUND
              /\ orders_db' = orders_db)]_vars

C10_Witness ==
    /\ request.op = "update"
    /\ response.code = HTTP_404_NOT_FOUND
    /\ Len(orders_db) > 0
    /\ \E id \in UUIDs : request.order_id = Some(id) /\ ~Has(orders_db, id)

\* the body of the step's create request meets every field constraint
\* (the enumerated fields of the request space are valid throughout)
MeetsConstraints(order) ==
    /\ Len(order.flavors) <= 3
    /\ order.extra_shot = None \/ order.extra_shot[1] \in 0..5
    /\ order.special_instructions = None \/ Len(order.special_instructions[1]) <= 200

\* C11: every posted body is answered; a body with valid enumerated fields
\* is accepted (201) exactly when it has at most 3 flavors, extra_shot absent
\* or in 0..5 and instructions absent or of at most 200 characters, and is
\* rejected (422) otherwise
C11_AcceptedIffValid ==
    /\ request.op = "pending" => ENABLED NextCalc
    /\ request.op = "create" =>
          /\ MeetsConstraints(request.body) => response.code = HTTP_201_CREATED
          /\ ~MeetsConstraints(request.body) => response.code = HTTP_422_UNPROCESSABLE

C11_Witness ==
    /\ request.op = "create"
    /\ Len(request.body.flavors) = 3
    /\ request.body.extra_shot = Some(5)
    /\ request.body.special_instructions # None
    /\ response.code = HTTP_201_CREATED
    /\ Len(orders_db) = 1

\* C12: a create whose body fails validation is answered 422 and has no side
\* effect: the store (its identifiers and every record) and the number of
\* stored orders are the same after it as before it
C12_RejectedCreateNoEffect ==
    [][(/\ now' = now
        /\ request'.op = "create"
        /\ ~MeetsConstraints(request'.body))
       => (/\ response'.code = HTTP_422_UNPROCESSABLE
           /\ orders_db' = orders_db
           /\ Cardinality(Keys(orders_db')) = Cardinality(Keys(orders_db)))]_vars

C12_Witness ==
    /\ request.op = "create"
    /\ ~MeetsConstraints(request.body)
    /\ response.code = HTTP_422_UNPROCESSABLE
    /\ Len(orders_db) = 1
    /\ issued # UUIDs

\* the step before was a create that was accepted
Accepted == request.op = "create" /\ response.code = HTTP_201_CREATED

\* the stored records
Records == {orders_db[i].value : i \in 1..Len(orders_db)}

\* the number a field holds, 0 when it is absent
OrZero(opt) == IF opt = None THEN 0 ELSE opt[1]

\* the price of the claim, in cents
PriceInCents(order) ==
    (CASE order.size = "small" -> 350
       [] order.size = "medium" -> 425
       [] order.size = "large" -> 495)
    + 75 * OrZero(order.extra_shot)
    + 50 * Len(order.flavors)
    + (IF order.milk \in {Some("oat"), Some("almond"), Some("soy")} THEN 65 ELSE 0)

\* C13: the price an accepted create returns and stores is, in cents,
\* base(size) + 75 * extra_shot + 50 * number of flavors + 65 for oat, almond
\* or soy milk, with base 350, 425, 495 for small, medium, large
C13_PriceFormula ==
    /\ Accepted => response.body.estimated_price = PriceInCents(request.body)
    /\ \A r \in Records : r.estimated_price = PriceInCents(r)

\* large, two flavors, oat milk, two extra shots: 8.10
C13_Witness ==
    /\ Accepted
    /\ request.body.size = "large"
    /\ request.body.flavors = <<"hazelnut", "caramel">>
    /\ request.body.milk = Some("oat")
    /\ request.body.extra_shot = Some(2)
    /\ response.body.estimated_price = 810
    /\ orders_db[1].value.estimated_price = 810

\* C14: the price of an accepted create is a whole number of cents and is
\* not below the base price of its size
C14_PriceAtLeastBase ==
    Accepted =>
       /\ response.body.estimated_price \in Nat
       /\ response.body.estimated_price >=
             (CASE request.body.size = "small" -> 350
                [] request.body.size = "medium" -> 425
                [] request.body.size = "large" -> 495)

\* an accepted create with no extras costs exactly the base price of its size
C14_Witness ==
    /\ Accepted
    /\ request.body.size = "medium"
    /\ request.body.extra_shot = Some(0)
    /\ request.body.flavors = <<>>
    /\ request.body.milk = Some("whole")
    /\ response.body.estimated_price = 425

\* the prep time of the claim: the accumulator 3 + iced + 0.5 * extra_shot +
\* (1 for more than one flavor) truncated, then at least 2
PrepMinutes(order) ==
    Max(2, 3 + (IF order.coffee_type = "iced" THEN 1 ELSE 0)
             + (IF Len(order.flavors) > 1 THEN 1 ELSE 0)
             + OrZero(order.extra_shot) \div 2)

\* C15: the prep time an accepted create returns and stores is
\* max(2, truncate(3 + (1 if iced) + 0.5 * extra_shot + (1 if more than one
\* flavor))): a half minute is dropped, two and three flavors add the same 1
C15_PrepTimeFormula ==
    /\ Accepted => response.body.estimated_prep_time = PrepMinutes(request.body)
    /\ \A r \in Records : r.estimated_prep_time = PrepMinutes(r)

\* hot, three extra shots, one flavor: 3 + 1.5 = 4.5 gives 4
C15_Witness ==
    /\ Accepted
    /\ request.body.coffee_type = "hot"
    /\ request.body.extra_shot = Some(3)
    /\ Len(request.body.flavors) = 1
    /\ response.body.estimated_prep_time = 4

\* C16: the prep time of every accepted create is at least 2, and so is
\* the estimated_prep_time of every stored record in every reachable state
C16_PrepTimeAtLeastTwo ==
    /\ Accepted => response.body.estimated_prep_time >= 2
    /\ \A r \in Records : r.estimated_prep_time >= 2

\* the shortest order, stored and moved to completed
C16_Witness ==
    /\ request.op = "update"
    /\ Len(orders_db) = 1
    /\ orders_db[1].value.status = "completed"
    /\ orders_db[1].value.coffee_type = "hot"
    /\ orders_db[1].value.extra_shot = None
    /\ orders_db[1].value.flavors = <<>>
    /\ orders_db[1].value.estimated_prep_time = 3

\* two orders were made by identical requests
SameRequest(r, q) == \A f \in RequestFields : r[f] = q[f]

\* C17: two creates of identical requests yield the same estimated_price and
\* the same estimated_prep_time, whatever the store held and whatever
\* happened between them
C17_SameRequestSameEstimates ==
    /\ \A r, q \in Records :
          SameRequest(r, q) =>
             /\ r.estimated_price = q.estimated_price
             /\ r.estimated_prep_time = q.estimated_prep_time
    /\ Accepted =>
          \A r \in Records :
             SameRequest(r, request.body) =>
                /\ r.estimated_price = response.body.estimated_price
                /\ r.estimated_prep_time = response.body.estimated_prep_time

\* the same request created twice, at different times, the first order
\* moved on in between
C17_Witness ==
    /\ Accepted
    /\ Len(orders_db) = 2
    /\ SameRequest(orders_db[1].value, orders_db[2].value)
    /\ orders_db[1].value.order_time # orders_db[2].value.order_time
    /\ orders_db[1].value.status = "ready"
    /\ orders_db[2].value = response.body

\* the elements of a sequence
Range(seq) == {seq[i] : i \in 1..Len(seq)}

\* C18: list can be called in every state and is answered 200 with exactly
\* the records stored, as many as there are; it leaves the store as it was;
\* a list that directly follows a list returns the same records
C18_ListReturnsStore ==
    [][/\ ENABLED Untracked(get_all_orders)
       /\ (now' = now /\ request'.op = "list")
          => (/\ response'.code = HTTP_200_OK
              /\ Range(response'.body) = Records
              /\ Len(response'.body) = Cardinality(Keys(orders_db))
              /\ orders_db' = orders_db)
       /\ (request.op = "list" /\ now' = now /\ request'.op = "list")
          => Range(response'.body) = Range(response.body)]_vars

\* a list of a store that holds two orders, one of them completed
C18_Witness ==
    /\ request.op = "list"
    /\ response.code = HTTP_200_OK
    /\ Len(response.body) = 2
    /\ Range(response.body) = Records
    /\ \E r \in Records : r.status = "completed"

\* the number of records in the store
Count(db) == Cardinality(Keys(db))

\* C19: the count a health query reports is the number of stored records;
\* that number rises by one in a create answered 201, falls by one in a
\* cancel answered 200 and is the same after every other step
C19_HealthCountsStore ==
    [][/\ (now' = now /\ request'.op = "health")
          => (/\ response'.code = HTTP_200_OK
              /\ response'.body.total_orders = Count(orders_db'))
       /\ Count(orders_db') - Count(orders_db) =
             IF now' = now /\ request'.op = "create"
                /\ response'.code = HTTP_201_CREATED THEN 1
             ELSE IF now' = now /\ request'.op = "cancel"
                /\ response'.code = HTTP_200_OK THEN -1
             ELSE 0]_vars

\* a health query after a create, a cancel and another create reports 1
C19_Witness ==
    /\ request.op = "health"
    /\ response.body.total_orders = 1
    /\ Cardinality(cancelled) = 1
    /\ Cardinality(issued) = 2
    /\ Len(orders_db) = 1

\* the signals of the three error kinds
ErrorCodes == {HTTP_422_UNPROCESSABLE, HTTP_404_NOT_FOUND, HTTP_400_BAD_REQUEST}

\* C20: a step is answered 422 exactly when it is a create whose body fails
\* validation, 404 exactly when it is a get, update or cancel of an
\* identifier that is not stored, 400 exactly when it is a cancel of a stored
\* order that is ready or completed; such a step leaves the store, the
\* identifiers issued and the cancels recorded as they were, and a call that
\* follows an error and is none of the three is answered 200 or 201
C20_ErrorsDistinctAndHarmless ==
    [][now' = now =>
          LET op == request'.op
              code == response'.code
              Invalid == op = "create" /\ ~MeetsConstraints(request'.body)
              Missing == /\ op \in {"get", "update", "cancel"}
                         /\ ~Has(orders_db, request'.order_id[1])
              Refused == /\ op = "cancel"
                         /\ StoredIn(orders_db, request'.order_id[1], {"ready", "completed"})
          IN  /\ code = HTTP_422_UNPROCESSABLE <=> Invalid
              /\ code = HTTP_404_NOT_FOUND <=> Missing
              /\ code = HTTP_400_BAD_REQUEST <=> Refused
              /\ (Invalid \/ Missing \/ Refused)
                    => UNCHANGED <<orders_db, issued, cancelled>>
              /\ (response.code \in ErrorCodes /\ ~(Invalid \/ Missing \/ Refused))
                    => code \in {HTTP_200_OK, HTTP_201_CREATED}]_vars

\* a cancel has been refused with 400; the order is still stored, a get of it
\* and a create that follow succeed
C20_Witness ==
    \E id \in Keys(orders_db) :
       /\ request = Call("cancel", Some(id), None)
       /\ response.code = HTTP_400_BAD_REQUEST
       /\ ENABLED (Untracked(get_order(id)) /\ response'.code = HTTP_200_OK)
       /\ ENABLED (/\ Untracked(create_coffee_order(simple_hot))
                   /\ response'.code = HTTP_201_CREATED)

\* C21: an update or a cancel of identifier id leaves every other stored
\* record where it was, with its status and every field as they were, and
\* stores no other identifier
C21_OtherOrdersUntouched ==
    [][\A id \in UUIDs :
          (Handles("update", id) \/ Handles("cancel", id))
          => (/\ Keys(orders_db') \ {id} = Keys(orders_db) \ {id}
              /\ OthersKept(orders_db, orders_db', id))]_vars

\* two orders are stored with different statuses after an update of one
C21_Witness ==
    /\ request.op = "update"
    /\ response.code = HTTP_200_OK
    /\ Len(orders_db) = 2
    /\ request.order_id = Some(orders_db[2].key)
    /\ orders_db[1].value.status = "preparing"
    /\ orders_db[2].value.status = "completed"

\* the coroutines in progress
InProgress == {tasks[slot][1] : slot \in Busy}

\* C22: update and cancel requests on one identifier run one after another:
\* no handler starts while another is between two of its statements, an
\* update that has passed its membership test finds the record at its write,
\* a cancel that has passed its tests deletes a record that is stored with
\* status received or preparing, and no handler fails on a missing key
C22_HandlersRunSerially ==
    /\ Cardinality(Busy) <= 1
    /\ \A t \in InProgress :
          /\ (t.op = "update" /\ t.pc = "write") => Has(orders_db, t.order_id[1])
          /\ (t.op = "cancel" /\ t.pc = "status") => Has(orders_db, t.order_id[1])
          /\ (t.op = "cancel" /\ t.pc = "delete")
                => StoredIn(orders_db, t.order_id[1], {"received", "preparing"})
    /\ response.code # HTTP_500_INTERNAL

\* a cancel has passed its status test right after an update of the same
\* order was answered
C22_Witness ==
    \E t \in InProgress :
       /\ t.op = "cancel"
       /\ t.pc = "delete"
       /\ request.op = "update"
       /\ request.order_id = t.order_id
       /\ response.code = HTTP_200_OK
       /\ response.body.status = "preparing"

\* the fields of a stored record
ResponseFields ==
    RequestFields \cup
    {"order_id", "estimated_price", "estimated_prep_time", "order_time", "status"}

\* every field of the record is set
Complete(r) ==
    /\ DOMAIN r = ResponseFields
    /\ r.order_id \in UUIDs
    /\ r.size \in SizeEnum
    /\ r.coffee_type \in CoffeeTypeEnum
    /\ r.estimated_price \in Nat
    /\ r.estimated_prep_time \in Nat
    /\ r.order_time \in Nat
    /\ r.status \in StatusLiteral

\* C23: every record a list or a get returns, and every record in the store
\* between any two statements of any handler, a create included, has its
\* identifier, request fields, price, prep time, creation time and status set
C23_NoPartialRecord ==
    /\ request.op = "list" => \A r \in Range(response.body) : Complete(r)
    /\ (request.op = "get" /\ response.code = HTTP_200_OK) => Complete(response.body)
    /\ \A r \in Records : Complete(r)

\* a list has returned a stored record and a create is between building its
\* record and storing it
C23_Witness ==
    /\ request.op = "list"
    /\ Len(response.body) = 1
    /\ Complete(response.body[1])
    /\ \E t \in InProgress : t.op = "create" /\ t.pc = "store"

\* C24: what create or get returned is a copy: it is not the object stored
\* under a key of the store, and what is seen through it stays what it was
\* when it was returned, whatever update or cancel follows
C24_ConsumersHoldCopies ==
    returned # None =>
       /\ Has(orders_db, returned[1].ref) =>
             Get(orders_db, returned[1].ref) = returned[1].seen
       /\ ~Has(orders_db, returned[1].ref)

\* the identifiers of the store, in the order the store holds them
KeySeq(db) == [i \in 1..Len(db) |-> db[i].key]

C26_StoredRecordConsistent ==
    \A i \in 1..Len(orders_db) :
       LET r == orders_db[i].value
       IN  /\ r.order_id = orders_db[i].key
           /\ r.status \in StatusLiteral
           /\ r.estimated_price = calculate_price(r)
           /\ r.estimated_prep_time = calculate_prep_time(r)

\* two records are stored, one with extras, both moved on from received
C26_Witness ==
    /\ Len(orders_db) = 2
    /\ request.op = "update"
    /\ \A i \in 1..2 : orders_db[i].value.status \in {"ready", "completed"}
    /\ \E i \in 1..2 : orders_db[i].value.extra_shot # None
    /\ \E i \in 1..2 : orders_db[i].value.estimated_price > BasePrice(orders_db[i].value.size) \div 10

\* C27: the identifiers of the store change in two ways only: a create
\* answered 201 adds one identifier, never issued before, and leaves every
\* record already stored as it was; a cancel answered 200 removes the
\* identifier it names; every other step, update, get, list, health, menu
\* and every refused call included, leaves the identifiers as they were
C27_KeysChangeByCreateAndCancel ==
    [][LET added == Keys(orders_db') \ Keys(orders_db)
           removed == Keys(orders_db) \ Keys(orders_db')
       IN  IF now' = now /\ request'.op = "create"
              /\ response'.code = HTTP_201_CREATED
           THEN /\ removed = {}
                /\ added = {response'.body.order_id}
                /\ added \cap issued = {}
                /\ \A k \in Keys(orders_db) : Get(orders_db', k) = Get(orders_db, k)
           ELSE IF now' = now /\ request'.op = "cancel"
                   /\ response'.code = HTTP_200_OK
           THEN /\ added = {}
                /\ removed = {request'.order_id[1]}
           ELSE added = {} /\ removed = {}]_vars

\* a menu request answered while one order is stored and another has been
\* cancelled
C27_Witness ==
    /\ request.op = "menu"
    /\ response.code = HTTP_200_OK
    /\ Len(orders_db) = 1
    /\ Cardinality(cancelled) = 1

\* the prep-time accumulator truncated, before the clamp at 2
Unclamped(order) ==
    3 + (IF order.coffee_type = "iced" THEN 1 ELSE 0)
      + (IF Len(order.flavors) > 1 THEN 1 ELSE 0)
      + OrZero(order.extra_shot) \div 2

\* C28: the prep time of every accepted create lies in 3..7 and is the
\* truncated accumulator itself, which the clamp at 2 never changes; the
\* price lies in 3.50..10.85
C28_EstimatesInRange ==
    Accepted =>
       /\ response.body.estimated_prep_time \in 3..7
       /\ response.body.estimated_prep_time = Unclamped(request.body)
       /\ Unclamped(request.body) >= 3
       /\ response.body.estimated_price \in 350..1085

\* the dearest and slowest order: large, iced, three flavors, premium milk,
\* five extra shots
C28_Witness ==
    /\ Accepted
    /\ request.body.size = "large"
    /\ request.body.coffee_type = "iced"
    /\ Len(request.body.flavors) = 3
    /\ request.body.extra_shot = Some(5)
    /\ response.body.estimated_prep_time = 7
    /\ response.body.estimated_price = 1085
====
